---- MODULE Spec2Model ----
(***************************************************************************)
(* Clamped numbers (src/src/clamped_numbers.hh, src/src/clamped_numbers.cc) *)
(*                                                                         *)
(* One clamped number object is modelled: its class (kind), its three      *)
(* fields, and a record of the last member function that ran on it (which  *)
(* function, its argument, the fields before the call, and what undefined  *)
(* behaviour the call ran into, if any).                                   *)
(*                                                                         *)
(* The wrapped primitive types are a signed two's-complement type IntT     *)
(* with range IntTMin..IntTMax and an unsigned type NatT with range        *)
(* 0..NatTMax whose arithmetic wraps modulo NatTMod (no integer promotion, *)
(* as for `int` / `unsigned int`).                                         *)
(***************************************************************************)
EXTENDS Integers, FiniteSets

VARIABLES
  kind,      \* the class of the object: "Basic", "Natural" or "Integer"
  value,     \* BasicClampedNumber::_value
  minValue,  \* BasicClampedNumber::_minValue
  maxValue,  \* BasicClampedNumber::_maxValue
  op,        \* the member function that ran last
  arg,       \* its argument (0 when it takes none)
  pre,       \* [value, min, max]: the fields before it ran
             \* (for the constructor: the three constructor arguments)
  ub,        \* undefined behaviour the last call ran into, or "none"
  trapped,   \* TRUE when that undefined behaviour ended the process
  ovf,       \* TRUE when a primitive arithmetic sub-expression of the last
             \* call had a mathematical result outside the wrapped type
  ret,       \* what the reference returned by the last call designates:
             \* "_value", "_minValue", "_maxValue" (a field of the object),
             \* "this" (the object), "indeterminate", or "none" (nothing
             \* was returned); for a binary form, the reference returned by
             \* the compound assignment it applies to its local object
  result,    \* the object returned by value by the last call: the set of
             \* its one record [value, min, max], or NoObject when the call
             \* returned no object
  operand,   \* the right operand of the last comparison: the set of its one
             \* record [value, min, max], NoObject for every other call
  answer     \* the primitive value(s) the last call returned by value: a
             \* comparison's six truth values, a conversion's result;
             \* NoAnswer for every other call

vars ==
  <<kind, value, minValue, maxValue, op, arg, pre, ub, trapped, ovf, ret,
    result, operand, answer>>

(***************************************************************************)
(* The wrapped primitive types                                             *)
(***************************************************************************)
IntTMax == 5
IntTMin == -IntTMax - 1
IntT == IntTMin..IntTMax

NatTMax == 2 * IntTMax + 1
NatTMod == NatTMax + 1
NatT == 0..NatTMax

\* "BasicArithmetic" is BasicClampedNumber with the operator*= and operator/=
\* that clamped_numbers.cc defines for it (the class in the header does not
\* declare them).
Kinds == {"Basic", "BasicArithmetic", "Natural", "Integer", "Decimal"}

\* The primitive type wrapped by an object of class k. The values of the
\* floating-point type of a ClampedDecimal are taken from the whole numbers
\* of IntT, which a floating-point type holds exactly.
NumT(k) == IF k = "Natural" THEN NatT ELSE IntT

Abs(x) == IF x < 0 THEN -x ELSE x

\* C++ integer division: the quotient truncated toward zero (b # 0).
TruncDiv(a, b) ==
  IF (a < 0) = (b < 0) THEN Abs(a) \div Abs(b) ELSE -(Abs(a) \div Abs(b))

\* C++ remainder: a - (a / b) * b, it has the sign of the dividend (b # 0).
TruncRem(a, b) == a - b * TruncDiv(a, b)

InIntT(x) == IntTMin <= x /\ x <= IntTMax
InNatT(x) == 0 <= x /\ x <= NatTMax

\* Two's-complement wrap-around of a signed result.
WrapInt(x) == ((x - IntTMin) % NatTMod) + IntTMin

\* Unsigned arithmetic is modulo 2^w.
WrapNat(x) == x % NatTMod

(***************************************************************************)
(* Outcomes of one call: the new _value and the undefined behaviour met.   *)
(***************************************************************************)
\* A call that runs to its return statement returns *this; a call that ends
\* the process returns nothing.
Outcome(v, u, t, o) ==
  [value |-> v, ub |-> u, trapped |-> t, ovf |-> o,
   ret |-> IF t THEN "none" ELSE "this"]

Ok(v) == Outcome(v, "none", FALSE, FALSE)

\* Unsigned wrap-around is defined behaviour: the wrapped result is stored.
NatResult(v, wraps) == Outcome(v, "none", FALSE, wraps)

\* Signed overflow is undefined: the build either wraps (and the call goes
\* on with the wrapped numbers, ending with _value = wrapped) or traps
\* (the process ends with _value = before).
SignedOverflow(before, wrapped) ==
  { Outcome(wrapped, "overflow", FALSE, TRUE),
    Outcome(before, "overflow", TRUE, TRUE) }

IntResult(before, new, overflows) ==
  IF overflows THEN SignedOverflow(before, new) ELSE {Ok(new)}

\* A primitive division or remainder by zero is undefined: the build traps
\* (x86: SIGFPE, _value = before) or the divide instruction yields a
\* quotient of 0 (AArch64) and the call goes on, ending with _value = cont.
DivideByZero(before, cont) ==
  { Outcome(before, "div_by_zero", TRUE, FALSE),
    Outcome(cont, "div_by_zero", FALSE, FALSE) }

(***************************************************************************)
(* BasicClampedNumber: constructor and setters                             *)
(***************************************************************************)
\* a constructor that stores its three arguments as they are given
ConstructAsGiven(v, min, max) == [value |-> v, min |-> min, max |-> max]

\* clamped_numbers.hh:95-98, the fields after BasicClampedNumber(v, min, max)
Construct(v, min, max) ==
  [value |-> v,
   min   |-> IF min <= v THEN min ELSE v,
   max   |-> IF max >= v THEN max ELSE v]

\* value(newVal) that stores its argument without looking at the bounds
setValueUnclamped(newVal, min, max) == newVal

\* clamped_numbers.cc:15-24, the value stored (and returned) by value(newVal)
setValue(newVal, min, max) ==
  IF newVal < min THEN min
  ELSE IF newVal > max THEN max
  ELSE newVal

\* minValue(newMin) without the comparison against the current value
setMinValueUnchecked(newMin, v) == newMin

\* clamped_numbers.cc:26-31, the minimum stored (and returned) by minValue(newMin)
setMinValue(newMin, v) == IF newMin <= v THEN newMin ELSE v

\* maxValue(newMax) without the comparison against the current value
setMaxValueUnchecked(newMax, v) == newMax

\* clamped_numbers.cc:33-38, the maximum stored (and returned) by maxValue(newMax)
setMaxValue(newMax, v) == IF newMax >= v THEN newMax ELSE v

(***************************************************************************)
(* ClampedNaturalNumber: compound assignments (clamped_numbers.cc:44-134). *)
(* Each operator gives the set of outcomes of the call on an object with   *)
(* fields (v, min, max) and right operand other.                           *)
(***************************************************************************)
\* ClampReaction (clamped_numbers.cc:8-13)
MAXIMUM == "MAXIMUM"
MINIMUM == "MINIMUM"
NONE == "NONE"

\* Control reaches the closing brace of a function that must return a
\* reference. The build returns an indeterminate reference and leaves the
\* object as it was (g++ -O0), or traps there, or takes the end as
\* unreachable and runs the guarded body as if its guard held (g++ -O1 and
\* above): assumed is the set of outcomes of the body under that assumption.
FlowsOffEnd(before, assumed) ==
  { [Outcome(before, "no_return", FALSE, FALSE) EXCEPT !.ret = "indeterminate"],
    Outcome(before, "no_return", TRUE, FALSE) }
  \cup { Outcome(o.value, "no_return", o.trapped, o.ovf) : o \in assumed }

\* operator+= that adds without looking at the maximum
NaturalPlusEqUnclamped(v, other, min, max) ==
  {NatResult(WrapNat(v + other), ~InNatT(v + other))}

\* operator+= (clamped_numbers.cc:44-60)
NaturalPlusEq(v, other, min, max) ==
  IF v >= max \/ other = 0
    THEN {Ok(v)}
    ELSE IF WrapNat(max - v) >= other
           THEN {NatResult(WrapNat(v + other), ~InNatT(v + other))}
           ELSE {Ok(max)}

\* operator-= (clamped_numbers.cc:62-78)
NaturalMinusEq(v, other, min, max) ==
  IF v <= min \/ other = 0
    THEN {Ok(v)}
    ELSE IF WrapNat(v - min) <= other
           THEN {NatResult(WrapNat(v - other), ~InNatT(v - other))}
           ELSE {Ok(min)}

\* operator*= that computes the product first and compares it with the maximum
NaturalTimesEqProductFirst(v, other, min, max) ==
  IF other = 0 \/ v = 0
    THEN {Ok(0)}
    ELSE IF WrapNat(v * other) <= max
           THEN {NatResult(WrapNat(v * other), ~InNatT(v * other))}
           ELSE {Ok(max)}

\* operator*= (clamped_numbers.cc:80-96)
NaturalTimesEq(v, other, min, max) ==
  IF other = 0 \/ v = 0
    THEN {Ok(0)}
    ELSE IF max \div v >= other
           THEN {NatResult(WrapNat(v * other), ~InNatT(v * other))}
           ELSE {Ok(max)}

\* operator/=, the statements inside the outer if (clamped_numbers.cc:103-119);
\* positive is what the build takes _value > 0 (line 105) to be.
NaturalDivideBody(v, other, min, max, positive) ==
  IF other = 0
    THEN IF positive THEN {Ok(max)} ELSE {Ok(0)}
    ELSE IF other > 0
           THEN IF min = 0
                  THEN DivideByZero(v, IF 0 >= other THEN v \div other ELSE min)
                  ELSE IF v \div min >= other
                         THEN {Ok(v \div other)}
                         ELSE {Ok(min)}
           ELSE {Ok(v)}

\* operator/= (clamped_numbers.cc:98-121): the return statement is inside the
\* outer if, the path around it reaches the end of the function. A build
\* that takes the guard _value != 0 for granted has _value > 0 for granted.
NaturalDivideEq(v, other, min, max) ==
  IF v # 0 /\ other # 1
    THEN NaturalDivideBody(v, other, min, max, v > 0)
    ELSE FlowsOffEnd(v, NaturalDivideBody(v, other, min, max, TRUE))

\* the three-way store of operator%= (clamped_numbers.cc:126-131 and 355-360)
\* for the remainder r
StoreRemainder(r, min, max) ==
  IF r < min THEN min
  ELSE IF r > max THEN max
  ELSE r

\* operator%= (clamped_numbers.cc:123-134): _value % other is evaluated
\* whatever other is (a divide instruction that yields quotient 0 leaves
\* the dividend as the remainder).
NaturalModEq(v, other, min, max) ==
  IF other = 0
    THEN DivideByZero(v, StoreRemainder(v, min, max))
    ELSE {Ok(StoreRemainder(v % other, min, max))}

(***************************************************************************)
(* ClampedInteger: clamp reactions and compound assignments                *)
(* (clamped_numbers.cc:140-363). A reaction is computed by the build on    *)
(* the wrapped results of its sub-expressions; the ...Overflows operator   *)
(* next to it tells whether one of the sub-expressions it evaluates has a  *)
(* mathematical result outside IntT.                                       *)
(***************************************************************************)
\* addReactionInteger that never asks for clamping
addReactionIntegerNeverClamps(current, other, min, max) == NONE

\* addReactionInteger (clamped_numbers.cc:140-151), called with other > 0
addReactionInteger(current, other, min, max) ==
  IF max >= 0 /\ current < 0
    THEN IF WrapInt(current + other) <= max THEN NONE ELSE MAXIMUM
    ELSE IF WrapInt(max - current) >= other THEN NONE ELSE MAXIMUM

addReactionOverflows(current, other, min, max) ==
  IF max >= 0 /\ current < 0
    THEN ~InIntT(current + other)
    ELSE ~InIntT(max - current)

\* subtractReactionInteger (clamped_numbers.cc:153-164), called with other > 0
subtractReactionInteger(current, other, min, max) ==
  IF min < 0 /\ current >= 0
    THEN IF WrapInt(current - other) >= min THEN NONE ELSE MINIMUM
    ELSE IF WrapInt(current - min) <= other THEN NONE ELSE MINIMUM

subtractReactionOverflows(current, other, min, max) ==
  IF min < 0 /\ current >= 0
    THEN ~InIntT(current - other)
    ELSE ~InIntT(current - min)

\* multiplyReactionInteger (clamped_numbers.cc:166-199), called with
\* current # 0 and other # 0
multiplyReactionInteger(current, other, min, max) ==
  IF current > 0
    THEN IF other > 0
           THEN IF other >= max
                  THEN MAXIMUM
                  ELSE IF TruncDiv(max, current) >= other THEN NONE ELSE MAXIMUM
           ELSE IF min >= 0
                  THEN MINIMUM
                  ELSE IF other <= min
                         THEN MINIMUM
                         ELSE IF WrapInt(TruncDiv(min, WrapInt(-other))) >= current
                                THEN NONE
                                ELSE MINIMUM
    ELSE IF other > 0
           THEN IF WrapInt(TruncDiv(min, current)) >= other THEN NONE ELSE MINIMUM
           ELSE IF other <= min
                  THEN MINIMUM
                  ELSE IF WrapInt(TruncDiv(min, current)) >= WrapInt(-other)
                         THEN NONE
                         ELSE MINIMUM

multiplyReactionOverflows(current, other, min, max) ==
  IF current > 0
    THEN IF other > 0
           THEN IF other >= max THEN FALSE ELSE ~InIntT(TruncDiv(max, current))
           ELSE IF min >= 0
                  THEN FALSE
                  ELSE IF other <= min
                         THEN FALSE
                         ELSE \/ ~InIntT(-other)
                              \/ ~InIntT(TruncDiv(min, WrapInt(-other)))
    ELSE IF other > 0
           THEN ~InIntT(TruncDiv(min, current))
           ELSE IF other <= min
                  THEN FALSE
                  ELSE ~InIntT(TruncDiv(min, current)) \/ ~InIntT(-other)

\* divideReactionInteger (clamped_numbers.cc:201-232), called with
\* current # 0, other # 0 and other # 1
divideReactionInteger(current, other, min, max) ==
  IF current > 0
    THEN IF other > 0
           THEN IF min < 0
                  THEN NONE
                  ELSE IF TruncDiv(current, other) >= min THEN NONE ELSE MINIMUM
           ELSE IF min >= 0
                  THEN MINIMUM
                  ELSE IF TruncDiv(current, other) >= min THEN NONE ELSE MINIMUM
    ELSE IF other > 0
           THEN IF TruncDiv(current, other) >= min THEN NONE ELSE MINIMUM
           ELSE IF max < 0
                  THEN MAXIMUM
                  ELSE IF WrapInt(TruncDiv(current, other)) <= max
                         THEN NONE
                         ELSE MAXIMUM

divideReactionOverflows(current, other, min, max) ==
  IF current > 0
    THEN FALSE
    ELSE IF other > 0
           THEN FALSE
           ELSE IF max < 0 THEN FALSE ELSE ~InIntT(TruncDiv(current, other))

\* the switch on the reaction in operator+=, -=, *=, /=
\* (clamped_numbers.cc:247-257, 276-286, 301-311, 336-346)
Switch(reaction, computed, min, max) ==
  CASE reaction = NONE -> computed
    [] reaction = MAXIMUM -> max
    [] reaction = MINIMUM -> min

\* operator+=, the branch for other > 0 (clamped_numbers.cc:246-260)
IntegerAddPositive(v, other, min, max) ==
  LET reaction == addReactionInteger(v, other, min, max)
  IN  IntResult(v, Switch(reaction, WrapInt(v + other), min, max),
                \/ addReactionOverflows(v, other, min, max)
                \/ reaction = NONE /\ ~InIntT(v + other))

\* operator-=, the branch for other > 0 (clamped_numbers.cc:275-289)
IntegerSubtractPositive(v, other, min, max) ==
  LET reaction == subtractReactionInteger(v, other, min, max)
  IN  IntResult(v, Switch(reaction, WrapInt(v - other), min, max),
                \/ subtractReactionOverflows(v, other, min, max)
                \/ reaction = NONE /\ ~InIntT(v - other))

\* the depth of nested calls the stack has room for
MaxDelegations == 3

\* The number of delegations between operator+= and operator-= for the
\* operand other, n having been made already, with a negation that wraps:
\* each of the two returns for other == 0, hands -other to the other one
\* for other < 0 (clamped_numbers.cc:238-243, 267-272) and goes on itself
\* for other > 0. The count stops when the stack has no room left.
RECURSIVE IntegerDelegations(_, _)
IntegerDelegations(other, n) ==
  IF other < 0 /\ n <= MaxDelegations
    THEN IntegerDelegations(WrapInt(-other), n + 1)
    ELSE n

\* -other for the most negative other (clamped_numbers.cc:243 and 272): the
\* negation overflows. Where it traps, the process ends at once. Where it
\* wraps, -other is other again and += and -= delegate to each other
\* without end: the stack runs out (g++ -O0) or, the delegation being a
\* tail call, the call loops for ever (g++ -O2); it never returns.
NegateMostNegative(v) ==
  { Outcome(v, "overflow", TRUE, TRUE) }
  \cup (IF IntegerDelegations(IntTMin, 0) > MaxDelegations
          THEN { Outcome(v, "endless_delegation", TRUE, TRUE),
                 [Outcome(v, "endless_delegation", FALSE, TRUE)
                    EXCEPT !.ret = "none"] }
          ELSE {})

\* operator+= (clamped_numbers.cc:234-261)
IntegerPlusEq(v, other, min, max) ==
  IF other = 0
    THEN {Ok(v)}
    ELSE IF other < 0
           THEN IF InIntT(-other)
                  THEN IntegerSubtractPositive(v, -other, min, max)
                  ELSE NegateMostNegative(v)
           ELSE IntegerAddPositive(v, other, min, max)

\* operator-= (clamped_numbers.cc:263-290)
IntegerMinusEq(v, other, min, max) ==
  IF other = 0
    THEN {Ok(v)}
    ELSE IF other < 0
           THEN IF InIntT(-other)
                  THEN IntegerAddPositive(v, -other, min, max)
                  ELSE NegateMostNegative(v)
           ELSE IntegerSubtractPositive(v, other, min, max)

\* operator*= (clamped_numbers.cc:292-315)
IntegerTimesEq(v, other, min, max) ==
  IF v = 0 \/ other = 0
    THEN {Ok(0)}
    ELSE LET reaction == multiplyReactionInteger(v, other, min, max)
         IN  IntResult(v, Switch(reaction, WrapInt(v * other), min, max),
                       \/ multiplyReactionOverflows(v, other, min, max)
                       \/ reaction = NONE /\ ~InIntT(v * other))

\* operator/= (clamped_numbers.cc:317-350)
IntegerDivideEq(v, other, min, max) ==
  IF v = 0 \/ other = 1
    THEN {Ok(v)}
    ELSE IF other = 0
           THEN {Ok(IF v > 0 THEN max ELSE IF v < 0 THEN min ELSE 0)}
           ELSE LET reaction == divideReactionInteger(v, other, min, max)
                IN  IntResult(v,
                      Switch(reaction, WrapInt(TruncDiv(v, other)), min, max),
                      \/ divideReactionOverflows(v, other, min, max)
                      \/ reaction = NONE /\ ~InIntT(TruncDiv(v, other)))

\* operator%= (clamped_numbers.cc:352-363): _value % other is evaluated
\* whatever other is; the remainder of the most negative value by -1
\* overflows in the division.
IntegerModEq(v, other, min, max) ==
  IF other = 0
    THEN DivideByZero(v, StoreRemainder(v, min, max))
    ELSE IntResult(v, StoreRemainder(TruncRem(v, other), min, max),
                   ~InIntT(TruncDiv(v, other)))

(***************************************************************************)
(* ClampedDecimal: compound assignments (clamped_numbers.cc:397-419)       *)
(***************************************************************************)
\* operator+= (clamped_numbers.cc:397-401): the body is `return *this;`
DecimalPlusEq(v, other, min, max) == {Ok(v)}

\* operator-= (clamped_numbers.cc:403-407): the body is `return *this;`
DecimalMinusEq(v, other, min, max) == {Ok(v)}

\* operator*= (clamped_numbers.cc:409-413): the body is `return *this;`
DecimalTimesEq(v, other, min, max) == {Ok(v)}

\* operator/= (clamped_numbers.cc:415-419): the body is `return *this;`
DecimalDivideEq(v, other, min, max) == {Ok(v)}

(***************************************************************************)
(* BasicClampedNumber: operator*= and operator/= (clamped_numbers.cc:489-   *)
(* 555), for a signed integral NumT.                                       *)
(***************************************************************************)
\* the value stored by lines 502-507, q standing for _maxValue / _value
BasicTimesStore(v, other, min, max, q) ==
  IF q >= other
    THEN WrapInt(v * other)
    ELSE IF (v > 0 /\ other > 0) \/ (v < 0 /\ other < 0)
           THEN max
           ELSE min

\* operator*=, the branch for |other| >= 1 (clamped_numbers.cc:501-508):
\* _maxValue / _value is evaluated whatever _value is.
BasicTimesWhole(v, other, min, max) ==
  IF v = 0
    THEN DivideByZero(v, BasicTimesStore(v, other, min, max, 0))
    ELSE LET q == WrapInt(TruncDiv(max, v))
         IN  IntResult(v, BasicTimesStore(v, other, min, max, q),
                       \/ ~InIntT(TruncDiv(max, v))
                       \/ q >= other /\ ~InIntT(v * other))

\* the value stored by lines 537-552, q standing for _value / _minValue
BasicDivideStore(v, other, min, max, q) ==
  IF other > 0
    THEN IF v > 0
           THEN IF q >= other THEN WrapInt(TruncDiv(v, other)) ELSE min
           ELSE IF q <= WrapInt(-other)
                  THEN WrapInt(TruncDiv(v, other))
                  ELSE max
    ELSE IF v > 0
           THEN IF q <= WrapInt(-other)
                  THEN WrapInt(TruncDiv(v, other))
                  ELSE max
           ELSE IF q >= other THEN WrapInt(TruncDiv(v, other)) ELSE min

\* operator/=, the branches for |other| > 1 (clamped_numbers.cc:536-552):
\* _value / _minValue is evaluated whatever _minValue is.
BasicDivideWhole(v, other, min, max) ==
  IF min = 0
    THEN DivideByZero(v, BasicDivideStore(v, other, min, max, 0))
    ELSE IntResult(v,
           BasicDivideStore(v, other, min, max, WrapInt(TruncDiv(v, min))),
           \/ ~InIntT(TruncDiv(v, min))
           \/ (other > 0) # (v > 0) /\ ~InIntT(-other))

RECURSIVE BasicTimesEq(_, _, _, _), BasicDivideEq(_, _, _, _)

\* operator*= (clamped_numbers.cc:489-511)
BasicTimesEq(v, other, min, max) ==
  IF other = 0
    THEN {Ok(0)}
    ELSE IF other < 1 /\ other > -1
           THEN BasicDivideEq(v, TruncDiv(1, other), min, max)
           ELSE BasicTimesWhole(v, other, min, max)

\* operator/= (clamped_numbers.cc:513-555)
BasicDivideEq(v, other, min, max) ==
  IF v = 0 \/ other = 1
    THEN {Ok(v)}
    ELSE IF other = -1
           THEN BasicTimesEq(v, -1, min, max)
           ELSE IF other = 0
                  THEN {Ok(IF v > 0 THEN max ELSE IF v < 0 THEN min ELSE 0)}
                  ELSE IF other < 1 /\ other > -1
                         THEN BasicTimesEq(v, TruncDiv(1, other), min, max)
                         ELSE BasicDivideWhole(v, other, min, max)

Fields == [value |-> value, min |-> minValue, max |-> maxValue]

\* the call returned no object by value
NoObject == {}

\* the call returned no primitive value by value
NoAnswer == {}

\* Every member function is called on a live object of a running process:
\* after undefined behaviour nothing more is modelled.
Callable == ub = "none" /\ ~trapped

\* The setters are final members of BasicClampedNumber, the derived classes
\* inherit them unchanged: they are exercised on the object of the base class.
IsBasic == kind = "Basic" /\ Callable

Init ==
  /\ kind \in Kinds
  /\ \E v \in NumT(kind), min \in NumT(kind), max \in NumT(kind) :
       /\ value = Construct(v, min, max).value
       /\ minValue = Construct(v, min, max).min
       /\ maxValue = Construct(v, min, max).max
       /\ pre = [value |-> v, min |-> min, max |-> max]
  /\ op = "ctor"
  /\ arg = 0
  /\ ub = "none"
  /\ trapped = FALSE
  /\ ovf = FALSE
  /\ ret = "none"
  /\ result = NoObject
  /\ operand = NoObject
  /\ answer = NoAnswer

SetValue ==
  /\ IsBasic
  /\ \E newVal \in NumT(kind) :
       /\ value' = setValue(newVal, minValue, maxValue)
       /\ arg' = newVal
  /\ op' = "value"
  /\ pre' = Fields
  /\ ret' = "_value"
  /\ result' = NoObject
  /\ operand' = NoObject
  /\ answer' = NoAnswer
  /\ UNCHANGED <<kind, minValue, maxValue, ub, trapped, ovf>>

SetMinValue ==
  /\ IsBasic
  /\ \E newMin \in NumT(kind) :
       /\ minValue' = setMinValue(newMin, value)
       /\ arg' = newMin
  /\ op' = "minValue"
  /\ pre' = Fields
  /\ ret' = "_minValue"
  /\ result' = NoObject
  /\ operand' = NoObject
  /\ answer' = NoAnswer
  /\ UNCHANGED <<kind, value, maxValue, ub, trapped, ovf>>

SetMaxValue ==
  /\ IsBasic
  /\ \E newMax \in NumT(kind) :
       /\ maxValue' = setMaxValue(newMax, value)
       /\ arg' = newMax
  /\ op' = "maxValue"
  /\ pre' = Fields
  /\ ret' = "_maxValue"
  /\ result' = NoObject
  /\ operand' = NoObject
  /\ answer' = NoAnswer
  /\ UNCHANGED <<kind, value, minValue, ub, trapped, ovf>>

\* clamped_numbers.hh:174-177
Minimize ==
  /\ IsBasic
  /\ value' = minValue
  /\ op' = "minimize"
  /\ arg' = 0
  /\ pre' = Fields
  /\ ret' = "_value"
  /\ result' = NoObject
  /\ operand' = NoObject
  /\ answer' = NoAnswer
  /\ UNCHANGED <<kind, minValue, maxValue, ub, trapped, ovf>>

\* clamped_numbers.hh:185-188
Maximize ==
  /\ IsBasic
  /\ value' = maxValue
  /\ op' = "maximize"
  /\ arg' = 0
  /\ pre' = Fields
  /\ ret' = "_value"
  /\ result' = NoObject
  /\ operand' = NoObject
  /\ answer' = NoAnswer
  /\ UNCHANGED <<kind, minValue, maxValue, ub, trapped, ovf>>

\* a compound assignment that constructs the object anew from the outcome,
\* stretching the bounds to it
ApplyStretching(name, other, outcomes) ==
  /\ \E o \in outcomes :
       /\ value' = o.value
       /\ minValue' = Construct(o.value, minValue, maxValue).min
       /\ maxValue' = Construct(o.value, minValue, maxValue).max
       /\ ub' = o.ub
       /\ trapped' = o.trapped
       /\ ovf' = o.ovf
       /\ ret' = o.ret
  /\ op' = name
  /\ arg' = other
  /\ pre' = Fields
  /\ result' = NoObject
  /\ operand' = NoObject
  /\ answer' = NoAnswer
  /\ UNCHANGED <<kind>>

\* One call of a compound assignment: the outcome is stored, the bounds are
\* never written.
Apply(name, other, outcomes) ==
  /\ \E o \in outcomes :
       /\ value' = o.value
       /\ ub' = o.ub
       /\ trapped' = o.trapped
       /\ ovf' = o.ovf
       /\ ret' = o.ret
  /\ op' = name
  /\ arg' = other
  /\ pre' = Fields
  /\ result' = NoObject
  /\ operand' = NoObject
  /\ answer' = NoAnswer
  /\ UNCHANGED <<kind, minValue, maxValue>>

IsNatural == kind = "Natural" /\ Callable

NaturalAdd ==
  /\ IsNatural
  /\ \E other \in NatT :
       Apply("+=", other, NaturalPlusEq(value, other, minValue, maxValue))

NaturalSubtract ==
  /\ IsNatural
  /\ \E other \in NatT :
       Apply("-=", other, NaturalMinusEq(value, other, minValue, maxValue))

NaturalMultiply ==
  /\ IsNatural
  /\ \E other \in NatT :
       Apply("*=", other, NaturalTimesEq(value, other, minValue, maxValue))

NaturalDivide ==
  /\ IsNatural
  /\ \E other \in NatT :
       Apply("/=", other, NaturalDivideEq(value, other, minValue, maxValue))

NaturalModulo ==
  /\ IsNatural
  /\ \E other \in NatT :
       Apply("%=", other, NaturalModEq(value, other, minValue, maxValue))

IsInteger == kind = "Integer" /\ Callable

IntegerAdd ==
  /\ IsInteger
  /\ \E other \in IntT :
       Apply("+=", other, IntegerPlusEq(value, other, minValue, maxValue))

IntegerSubtract ==
  /\ IsInteger
  /\ \E other \in IntT :
       Apply("-=", other, IntegerMinusEq(value, other, minValue, maxValue))

IntegerMultiply ==
  /\ IsInteger
  /\ \E other \in IntT :
       Apply("*=", other, IntegerTimesEq(value, other, minValue, maxValue))

IntegerDivide ==
  /\ IsInteger
  /\ \E other \in IntT :
       Apply("/=", other, IntegerDivideEq(value, other, minValue, maxValue))

IntegerModulo ==
  /\ IsInteger
  /\ \E other \in IntT :
       Apply("%=", other, IntegerModEq(value, other, minValue, maxValue))

IsBasicArithmetic == kind = "BasicArithmetic" /\ Callable

BasicMultiply ==
  /\ IsBasicArithmetic
  /\ \E other \in IntT :
       Apply("*=", other, BasicTimesEq(value, other, minValue, maxValue))

BasicDivide ==
  /\ IsBasicArithmetic
  /\ \E other \in IntT :
       Apply("/=", other, BasicDivideEq(value, other, minValue, maxValue))

IsDecimal == kind = "Decimal" /\ Callable

DecimalAdd ==
  /\ IsDecimal
  /\ \E other \in IntT :
       Apply("+=", other, DecimalPlusEq(value, other, minValue, maxValue))

DecimalSubtract ==
  /\ IsDecimal
  /\ \E other \in IntT :
       Apply("-=", other, DecimalMinusEq(value, other, minValue, maxValue))

DecimalMultiply ==
  /\ IsDecimal
  /\ \E other \in IntT :
       Apply("*=", other, DecimalTimesEq(value, other, minValue, maxValue))

DecimalDivide ==
  /\ IsDecimal
  /\ \E other \in IntT :
       Apply("/=", other, DecimalDivideEq(value, other, minValue, maxValue))

(***************************************************************************)
(* Increment and decrement (clamped_numbers.hh:490-534, 718-762, 966-1010) *)
(***************************************************************************)
\* A postfix form copies the object, applies the prefix form to the object
\* and returns the copy by value.
Postfix(name, outcomes) ==
  /\ \E o \in outcomes :
       /\ value' = o.value
       /\ ub' = o.ub
       /\ trapped' = o.trapped
       /\ ovf' = o.ovf
       /\ result' = IF o.trapped THEN NoObject ELSE {Fields}
  /\ op' = name
  /\ arg' = 0
  /\ pre' = Fields
  /\ ret' = "none"
  /\ operand' = NoObject
  /\ answer' = NoAnswer
  /\ UNCHANGED <<kind, minValue, maxValue>>

\* prefix operator++ of ClampedNaturalNumber: `return (*this += 1);`
NaturalPreIncrement ==
  /\ IsNatural
  /\ Apply("++x", 1, NaturalPlusEq(value, 1, minValue, maxValue))

\* prefix operator--: `return (*this -= 1);`
NaturalPreDecrement ==
  /\ IsNatural
  /\ Apply("--x", 1, NaturalMinusEq(value, 1, minValue, maxValue))

\* postfix operator++: `++(*this);` between the copy and its return
NaturalPostIncrement ==
  /\ IsNatural
  /\ Postfix("x++", NaturalPlusEq(value, 1, minValue, maxValue))

\* postfix operator--: `--(*this);` between the copy and its return
NaturalPostDecrement ==
  /\ IsNatural
  /\ Postfix("x--", NaturalMinusEq(value, 1, minValue, maxValue))

\* prefix operator++ of ClampedInteger: `return (*this += 1);`
IntegerPreIncrement ==
  /\ IsInteger
  /\ Apply("++x", 1, IntegerPlusEq(value, 1, minValue, maxValue))

\* prefix operator--: `return (*this -= 1);`
IntegerPreDecrement ==
  /\ IsInteger
  /\ Apply("--x", 1, IntegerMinusEq(value, 1, minValue, maxValue))

\* postfix operator++: `++(*this);` between the copy and its return
IntegerPostIncrement ==
  /\ IsInteger
  /\ Postfix("x++", IntegerPlusEq(value, 1, minValue, maxValue))

\* postfix operator-- (clamped_numbers.hh:757-762): the statement between
\* the copy and its return is `--(this);`, it names the pointer to the
\* object and not the object, whose fields it does not write.
IntegerPostDecrement ==
  /\ IsInteger
  /\ Postfix("x--", {Ok(value)})

\* prefix operator++ of ClampedDecimal: `return (*this += 1);`
DecimalPreIncrement ==
  /\ IsDecimal
  /\ Apply("++x", 1, DecimalPlusEq(value, 1, minValue, maxValue))

\* prefix operator--: `return (*this -= 1);`
DecimalPreDecrement ==
  /\ IsDecimal
  /\ Apply("--x", 1, DecimalMinusEq(value, 1, minValue, maxValue))

\* postfix operator++: `++(*this);` between the copy and its return
DecimalPostIncrement ==
  /\ IsDecimal
  /\ Postfix("x++", DecimalPlusEq(value, 1, minValue, maxValue))

\* postfix operator--: `--(*this);` between the copy and its return
DecimalPostDecrement ==
  /\ IsDecimal
  /\ Postfix("x--", DecimalMinusEq(value, 1, minValue, maxValue))

(***************************************************************************)
(* Operators that return a new object and leave their operand alone:       *)
(* unary negation and the binary forms (clamped_numbers.hh:548-627,        *)
(* 776-872).                                                               *)
(***************************************************************************)
\* unary operator- (clamped_numbers.hh:867-872): negVal is -(orig._value) in
\* IntT, the object returned is constructed from negVal and the bounds of
\* orig. The negation of the most negative value overflows.
NegateResult(v, min, max) ==
  IF InIntT(-v)
    THEN {[object |-> {Construct(-v, min, max)}, ub |-> "none",
           trapped |-> FALSE, ovf |-> FALSE]}
    ELSE {[object |-> {Construct(WrapInt(-v), min, max)}, ub |-> "overflow",
           trapped |-> FALSE, ovf |-> TRUE],
          [object |-> NoObject, ub |-> "overflow",
           trapped |-> TRUE, ovf |-> TRUE]}

Negate ==
  /\ IsInteger
  /\ \E o \in NegateResult(value, minValue, maxValue) :
       /\ result' = o.object
       /\ ub' = o.ub
       /\ trapped' = o.trapped
       /\ ovf' = o.ovf
  /\ op' = "-x"
  /\ arg' = 0
  /\ pre' = Fields
  /\ ret' = "none"
  /\ operand' = NoObject
  /\ answer' = NoAnswer
  /\ UNCHANGED <<kind, value, minValue, maxValue>>

\* A binary form copies lhs into a local object, applies the compound
\* assignment to the local object and returns by value a copy of what the
\* reference returned by the compound assignment designates: the local
\* object after the assignment. Copying from an indeterminate reference
\* ends the process.
BinaryForm(name, rhs, outcomes) ==
  /\ \E o \in outcomes :
       /\ result' = IF o.ret = "this"
                      THEN {[value |-> o.value, min |-> minValue,
                             max |-> maxValue]}
                      ELSE NoObject
       /\ ub' = o.ub
       /\ trapped' = (o.trapped \/ o.ret = "indeterminate")
       /\ ovf' = o.ovf
       /\ ret' = o.ret
  /\ op' = name
  /\ arg' = rhs
  /\ pre' = Fields
  /\ operand' = NoObject
  /\ answer' = NoAnswer
  /\ UNCHANGED <<kind, value, minValue, maxValue>>

\* operator+ (clamped_numbers.hh:548-553)
NaturalPlus ==
  /\ IsNatural
  /\ \E rhs \in NatT :
       BinaryForm("+", rhs, NaturalPlusEq(value, rhs, minValue, maxValue))

\* operator- (clamped_numbers.hh:566-571)
NaturalMinus ==
  /\ IsNatural
  /\ \E rhs \in NatT :
       BinaryForm("-", rhs, NaturalMinusEq(value, rhs, minValue, maxValue))

\* operator* (clamped_numbers.hh:584-589)
NaturalTimes ==
  /\ IsNatural
  /\ \E rhs \in NatT :
       BinaryForm("*", rhs, NaturalTimesEq(value, rhs, minValue, maxValue))

\* operator/ (clamped_numbers.hh:602-607)
NaturalOver ==
  /\ IsNatural
  /\ \E rhs \in NatT :
       BinaryForm("/", rhs, NaturalDivideEq(value, rhs, minValue, maxValue))

\* operator% (clamped_numbers.hh:622-627)
NaturalRemainder ==
  /\ IsNatural
  /\ \E rhs \in NatT :
       BinaryForm("%", rhs, NaturalModEq(value, rhs, minValue, maxValue))

\* operator+ (clamped_numbers.hh:776-781)
IntegerPlus ==
  /\ IsInteger
  /\ \E rhs \in IntT :
       BinaryForm("+", rhs, IntegerPlusEq(value, rhs, minValue, maxValue))

\* operator- (clamped_numbers.hh:794-799)
IntegerMinus ==
  /\ IsInteger
  /\ \E rhs \in IntT :
       BinaryForm("-", rhs, IntegerMinusEq(value, rhs, minValue, maxValue))

\* operator* (clamped_numbers.hh:812-817)
IntegerTimes ==
  /\ IsInteger
  /\ \E rhs \in IntT :
       BinaryForm("*", rhs, IntegerTimesEq(value, rhs, minValue, maxValue))

\* operator/ (clamped_numbers.hh:830-835)
IntegerOver ==
  /\ IsInteger
  /\ \E rhs \in IntT :
       BinaryForm("/", rhs, IntegerDivideEq(value, rhs, minValue, maxValue))

\* operator% (clamped_numbers.hh:849-854)
IntegerRemainder ==
  /\ IsInteger
  /\ \E rhs \in IntT :
       BinaryForm("%", rhs, IntegerModEq(value, rhs, minValue, maxValue))

NextOperators ==
  \/ Negate
  \/ NaturalPlus
  \/ NaturalMinus
  \/ NaturalTimes
  \/ NaturalOver
  \/ NaturalRemainder
  \/ IntegerPlus
  \/ IntegerMinus
  \/ IntegerTimes
  \/ IntegerOver
  \/ IntegerRemainder

SpecOperators == Init /\ [][NextOperators]_vars

(***************************************************************************)
(* Conversions (clamped_numbers.hh:377-393): final members of              *)
(* BasicClampedNumber, inherited by every class.                           *)
(***************************************************************************)
\* explicit operator NumT (clamped_numbers.hh:377-380)
ToNumT ==
  /\ Callable
  /\ answer' = {value}
  /\ op' = "NumT"
  /\ arg' = 0
  /\ pre' = Fields
  /\ ret' = "none"
  /\ result' = NoObject
  /\ operand' = NoObject
  /\ UNCHANGED <<kind, value, minValue, maxValue, ub, trapped, ovf>>

\* explicit operator bool (clamped_numbers.hh:390-393)
ToBool ==
  /\ Callable
  /\ answer' = {value = 0}
  /\ op' = "bool"
  /\ arg' = 0
  /\ pre' = Fields
  /\ ret' = "none"
  /\ result' = NoObject
  /\ operand' = NoObject
  /\ UNCHANGED <<kind, value, minValue, maxValue, ub, trapped, ovf>>

(***************************************************************************)
(* Relational operators (clamped_numbers.hh:297-367), a and b being the    *)
(* records [value, min, max] of *this and of other.                        *)
(***************************************************************************)
\* operator== that compares the bounds as well as the value
OperatorEqAllFields(a, b) == a = b

\* operator== (clamped_numbers.hh:297-300)
OperatorEq(a, b) == a.value = b.value

\* operator!= (clamped_numbers.hh:309-312)
OperatorNe(a, b) == ~OperatorEq(a, b)

\* operator< (clamped_numbers.hh:323-326)
OperatorLt(a, b) == a.value < b.value

\* operator<= (clamped_numbers.hh:337-340)
OperatorLe(a, b) == OperatorLt(a, b) \/ OperatorEq(a, b)

\* operator> (clamped_numbers.hh:351-354)
OperatorGt(a, b) == ~OperatorLe(a, b)

\* operator>= as the negation of operator<=
OperatorGeAsNotLe(a, b) == ~OperatorLe(a, b)

\* operator>= (clamped_numbers.hh:364-367)
OperatorGe(a, b) == ~OperatorLt(a, b)

\* right operands: for every value, the objects of class k whose minimum
\* is the value or the least number of the type and whose maximum is the
\* value or the greatest number of the type
Operands(k) ==
  UNION { { Construct(v, min, max) : min \in {IntTMin, v},
                                    max \in {v, IntTMax} } :
          v \in NumT(k) }

\* The six relational operators applied to the object and one right
\* operand b; none of them writes a field.
Compare ==
  /\ IsBasic
  /\ \E b \in Operands(kind) :
       /\ operand' = {b}
       /\ answer' = {[eq |-> OperatorEq(Fields, b),
                      ne |-> OperatorNe(Fields, b),
                      lt |-> OperatorLt(Fields, b),
                      le |-> OperatorLe(Fields, b),
                      gt |-> OperatorGt(Fields, b),
                      ge |-> OperatorGe(Fields, b)]}
  /\ op' = "compare"
  /\ arg' = 0
  /\ pre' = Fields
  /\ ret' = "none"
  /\ result' = NoObject
  /\ UNCHANGED <<kind, value, minValue, maxValue, ub, trapped, ovf>>

NextCompare == Compare

SpecCompare == Init /\ [][NextCompare]_vars

(***************************************************************************)
(* Type aliases and explicit specializations (clamped_numbers.hh:1102-     *)
(* 1828). The widths of the wrapped types are not told apart: a signed     *)
(* alias wraps IntT, an unsigned alias wraps NatT.                         *)
(***************************************************************************)
SignedAliases ==
  {"ClampedInt8", "ClampedInt16", "ClampedInt32", "ClampedInt64",
   "ClampedStdInt", "ClampedMaxInt"}

UnsignedAliases ==
  {"ClampedUInt8", "ClampedUInt16", "ClampedUInt32", "ClampedUInt64",
   "ClampedStdUInt", "ClampedMaxUInt"}

Aliases == SignedAliases \cup UnsignedAliases

\* the class template an alias names in its using-declaration: the
\* fixed-width unsigned aliases name ClampedInteger (hh:1632, 1695, 1758,
\* 1821), ClampedStdUInt and ClampedMaxUInt name ClampedNaturalNumber
\* (hh:1826, 1828)
AliasTemplate(alias) ==
  IF alias \in {"ClampedStdUInt", "ClampedMaxUInt"}
    THEN "Natural"
    ELSE "Integer"

\* the explicit specializations are of ClampedInteger for the signed types
\* and of ClampedNaturalNumber for the unsigned types
IsSpecialized(alias) ==
  \/ alias \in SignedAliases /\ AliasTemplate(alias) = "Integer"
  \/ alias \in UnsignedAliases /\ AliasTemplate(alias) = "Natural"

\* std::numeric_limits<T>::min() and max() of the wrapped type
TypeMin(alias) == IF alias \in SignedAliases THEN IntTMin ELSE 0
TypeMax(alias) == IF alias \in SignedAliases THEN IntTMax ELSE NatTMax

\* In a specialization the constructors of 0 and of 1 argument delegate to
\* the constructor of 3 arguments of the same class (hh:1113-1129), and
\* that one delegates to the constructor of 3 arguments of the same class,
\* itself (hh:1142-1145).
DelegatesTo(arity) == 3

\* the number of delegations made from the constructor of the given arity,
\* n having been made already, until the stack has no room left
RECURSIVE DelegationChain(_, _)
DelegationChain(arity, n) ==
  IF n > MaxDelegations THEN n ELSE DelegationChain(DelegatesTo(arity), n + 1)

\* Construction of an alias from the arguments (v, min, max) its constructor
\* of 0 or 1 argument passes on. The primary templates declare a constructor
\* of 3 arguments only, an alias that names one has no constructor to call.
\* The specializations have no base class and no fields: nothing is stored.
AliasConstruct(alias, arity, v) ==
  /\ kind' = AliasTemplate(alias)
  /\ value' = 0
  /\ minValue' = 0
  /\ maxValue' = 0
  /\ op' = alias
  /\ arg' = v
  /\ pre' = [value |-> v, min |-> TypeMin(alias), max |-> TypeMax(alias)]
  /\ ub' = IF ~IsSpecialized(alias)
             THEN "no_constructor"
             ELSE IF DelegationChain(arity, 0) > MaxDelegations
                    THEN "endless_delegation"
                    ELSE "none"
  /\ trapped' = (ub' # "none")
  /\ ovf' = FALSE
  /\ ret' = "none"

\* Alias() (hh:1113-1116 and the like)
AliasDefaultConstruct ==
  /\ \E alias \in Aliases : AliasConstruct(alias, 0, 0)
  /\ result' = NoObject
  /\ operand' = NoObject
  /\ answer' = NoAnswer

\* Alias(value) (hh:1126-1129 and the like)
AliasValueConstruct ==
  /\ \E alias \in Aliases :
       \E v \in TypeMin(alias)..TypeMax(alias) : AliasConstruct(alias, 1, v)
  /\ result' = NoObject
  /\ operand' = NoObject
  /\ answer' = NoAnswer

NextAliases ==
  \/ AliasDefaultConstruct
  \/ AliasValueConstruct

SpecAliases == Init /\ [][NextAliases]_vars

Next ==
  \/ SetValue
  \/ SetMinValue
  \/ SetMaxValue
  \/ Minimize
  \/ Maximize
  \/ NaturalAdd
  \/ NaturalSubtract
  \/ NaturalMultiply
  \/ NaturalDivide
  \/ NaturalModulo
  \/ IntegerAdd
  \/ IntegerSubtract
  \/ IntegerMultiply
  \/ IntegerDivide
  \/ IntegerModulo
  \/ BasicMultiply
  \/ BasicDivide
  \/ DecimalAdd
  \/ DecimalSubtract
  \/ DecimalMultiply
  \/ DecimalDivide
  \/ ToNumT
  \/ ToBool
  \/ NaturalPreIncrement
  \/ NaturalPreDecrement
  \/ NaturalPostIncrement
  \/ NaturalPostDecrement
  \/ IntegerPreIncrement
  \/ IntegerPreDecrement
  \/ IntegerPostIncrement
  \/ IntegerPostDecrement
  \/ DecimalPreIncrement
  \/ DecimalPreDecrement
  \/ DecimalPostIncrement
  \/ DecimalPostDecrement

Spec == Init /\ [][Next]_vars

(***************************************************************************)
(* Properties                                                              *)
(***************************************************************************)
InBounds == minValue <= value /\ value <= maxValue

\* the last call started from fields with min <= value <= max
PreInBounds == pre.min <= pre.value /\ pre.value <= pre.max

Signed == kind = "Integer"
Unsigned == kind = "Natural"
Arithmetic == kind \in {"Natural", "Integer"}

\* minimum, maximum and clamping over the mathematical integers
Least(a, b) == IF a <= b THEN a ELSE b
Greatest(a, b) == IF a >= b THEN a ELSE b
Clamp(x, min, max) == Greatest(min, Least(max, x))

\* C11: for ClampedNaturalNumber and ClampedInteger, in every state, x %= 0
\* leaves value = 0 and evaluates no primitive remainder with divisor 0.
C11_ModuloByZeroYieldsZero ==
  (Arithmetic /\ op = "%=" /\ arg = 0)
  => (value = 0 /\ ub # "div_by_zero")

\* the last call evaluated no division or remainder with divisor 0 and ran
\* into no other undefined behaviour
WellDefined == ub = "none" /\ ~trapped /\ ~ovf

\* C12: from min <= value <= max and for every operand, each of +=, -=, *=,
\* /=, %= of ClampedNaturalNumber and ClampedInteger and each of *=, /= of
\* BasicClampedNumber evaluates no division or remainder by zero and leaves
\* a well-defined value with min <= value <= max.
C12_ArithmeticIsTotal ==
  (/\ kind \in {"Natural", "Integer", "BasicArithmetic"}
   /\ op \in {"+=", "-=", "*=", "/=", "%="}
   /\ PreInBounds)
  => (WellDefined /\ InBounds)

\* C13: the constructor called with any (value, min, max) stores value
\* unchanged, stores min if min <= value and value otherwise, stores max if
\* max >= value and value otherwise.
C13_ConstructorStretchesBounds ==
  op = "ctor"
  => (/\ value = pre.value
      /\ minValue = (IF pre.min <= pre.value THEN pre.min ELSE pre.value)
      /\ maxValue = (IF pre.max >= pre.value THEN pre.max ELSE pre.value))

\* BasicClampedNumber(0, 1, -1) has value 0, minimum 0 and maximum 0
C13_Witness ==
  /\ kind = "Basic"
  /\ op = "ctor"
  /\ pre = [value |-> 0, min |-> 1, max |-> -1]
  /\ Fields = [value |-> 0, min |-> 0, max |-> 0]

\* C14: value(v) called with min <= max stores clamp(v, min, max) in _value,
\* returns a reference to _value and leaves min and max unchanged; for
\* min <= v <= max the value read afterwards is v.
C14_SetValueClamps ==
  (op = "value" /\ pre.min <= pre.max)
  => (/\ value = Clamp(arg, pre.min, pre.max)
      /\ ret = "_value"
      /\ minValue = pre.min
      /\ maxValue = pre.max
      /\ (pre.min <= arg /\ arg <= pre.max) => value = arg)

\* value(v) was called with v above the maximum and stored the maximum
C14_Witness ==
  /\ op = "value"
  /\ arg > pre.max
  /\ pre.value < pre.max
  /\ value = pre.max
  /\ ret = "_value"

\* C15: minValue(m) stores m if m <= value and value otherwise, and returns
\* a reference to _minValue; maxValue(m) stores m if m >= value and value
\* otherwise, and returns a reference to _maxValue; each leaves the value
\* and the other bound unchanged.
C15_BoundSettersStopAtValue ==
  /\ op = "minValue"
     => (/\ minValue = (IF arg <= pre.value THEN arg ELSE pre.value)
         /\ ret = "_minValue"
         /\ value = pre.value
         /\ maxValue = pre.max)
  /\ op = "maxValue"
     => (/\ maxValue = (IF arg >= pre.value THEN arg ELSE pre.value)
         /\ ret = "_maxValue"
         /\ value = pre.value
         /\ minValue = pre.min)

\* after minValue(m) with m > 0 on value 0, maxValue(-5) stored 0 as well:
\* the fields are (0, 0, 0)
C15_Witness ==
  /\ op = "maxValue"
  /\ arg = -5
  /\ pre = [value |-> 0, min |-> 0, max |-> 5]
  /\ Fields = [value |-> 0, min |-> 0, max |-> 0]

\* C16: for ClampedInteger and ClampedNaturalNumber, a call x += k with
\* k > 0 on an object with value = max leaves value = max (so value = max
\* holds after every step of a sequence of such calls).
C16_SaturationIsIdempotent ==
  [][(Arithmetic /\ value = maxValue /\ op' = "+=" /\ arg' > 0)
     => (value' = maxValue' /\ maxValue' = maxValue)]_vars

\* x += k with k > 0 ran on a ClampedInteger with min < value = max and
\* the value is the maximum still
C16_Witness ==
  /\ Signed
  /\ op = "+="
  /\ arg > 0
  /\ pre.min < pre.value
  /\ pre.value = pre.max
  /\ value = maxValue
  /\ maxValue = pre.max

\* C17: for ClampedNaturalNumber and ClampedInteger, in every state and for
\* every modulus k # 0, x %= k leaves value = clamp(r, min, max), r the
\* remainder of value by k with the sign of the dividend, and leaves min
\* and max unchanged.
C17_ModuloClampsRemainder ==
  (Arithmetic /\ op = "%=" /\ arg # 0)
  => (/\ value = Clamp(TruncRem(pre.value, arg), pre.min, pre.max)
      /\ minValue = pre.min
      /\ maxValue = pre.max)

\* C18: unary negation of a ClampedInteger with fields (v, min, max) returns
\* an object with value -v, minimum min if min <= -v and -v otherwise,
\* maximum max if max >= -v and -v otherwise, and leaves the operand
\* unchanged.
C18_NegationStretchesBounds ==
  (Signed /\ op = "-x")
  => (/\ result = {[value |-> -pre.value,
                    min |-> IF pre.min <= -pre.value
                              THEN pre.min ELSE -pre.value,
                    max |-> IF pre.max >= -pre.value
                              THEN pre.max ELSE -pre.value]}
      /\ Fields = pre)

BinaryForms == {"+", "-", "*", "/", "%"}

\* the outcomes of the compound assignment that matches the binary form
\* name of class k
CompoundAssignment(k, name, v, other, min, max) ==
  CASE k = "Natural" /\ name = "+" -> NaturalPlusEq(v, other, min, max)
    [] k = "Natural" /\ name = "-" -> NaturalMinusEq(v, other, min, max)
    [] k = "Natural" /\ name = "*" -> NaturalTimesEq(v, other, min, max)
    [] k = "Natural" /\ name = "/" -> NaturalDivideEq(v, other, min, max)
    [] k = "Natural" /\ name = "%" -> NaturalModEq(v, other, min, max)
    [] k = "Integer" /\ name = "+" -> IntegerPlusEq(v, other, min, max)
    [] k = "Integer" /\ name = "-" -> IntegerMinusEq(v, other, min, max)
    [] k = "Integer" /\ name = "*" -> IntegerTimesEq(v, other, min, max)
    [] k = "Integer" /\ name = "/" -> IntegerDivideEq(v, other, min, max)
    [] k = "Integer" /\ name = "%" -> IntegerModEq(v, other, min, max)
    [] k = "Decimal" /\ name = "+" -> DecimalPlusEq(v, other, min, max)
    [] k = "Decimal" /\ name = "-" -> DecimalMinusEq(v, other, min, max)
    [] k = "Decimal" /\ name = "*" -> DecimalTimesEq(v, other, min, max)
    [] k = "Decimal" /\ name = "/" -> DecimalDivideEq(v, other, min, max)

\* C19: the binary forms +, -, *, /, % of ClampedNaturalNumber and
\* ClampedInteger leave the left operand unchanged and, where the matching
\* compound assignment applied to the copy of the left operand does not end
\* the process, return an object whose fields are those that assignment
\* left in the copy.
C19_BinaryFormsMatchCompound ==
  (Arithmetic /\ op \in BinaryForms)
  => (/\ Fields = pre
      /\ ret # "none"
         => \E o \in CompoundAssignment(kind, op, pre.value, arg,
                                        pre.min, pre.max) :
              /\ ~o.trapped
              /\ o.ret = ret
              /\ result = {[value |-> o.value, min |-> pre.min,
                            max |-> pre.max]})

Increments == {"++x", "--x", "x++", "x--"}

\* the outcomes of x += 1 (for ++) or x -= 1 (for --) on the fields before
\* the last call
StepByOne ==
  CompoundAssignment(kind, IF op \in {"++x", "x++"} THEN "+" ELSE "-",
                     pre.value, 1, pre.min, pre.max)

\* C21: for ClampedNaturalNumber, ClampedInteger and ClampedDecimal, ++x and
\* --x leave the object as x += 1 and x -= 1 do and return what they
\* return; x++ and x-- leave the object as x += 1 and x -= 1 do and return
\* a copy of the fields from before the call.
C21_IncrementsAreStepsByOne ==
  (kind \in {"Natural", "Integer", "Decimal"} /\ op \in Increments)
  => /\ \E o \in StepByOne :
          /\ value = o.value
          /\ trapped = o.trapped
          /\ op \in {"++x", "--x"} => (ret = o.ret /\ result = NoObject)
     /\ minValue = pre.min
     /\ maxValue = pre.max
     /\ (op \in {"x++", "x--"} /\ ~trapped) => result = {pre}

\* C26: for ClampedDecimal, x += k, x -= k, x *= k and x /= k (k # 0) leave
\* value = old value + k, old value - k, old value * k and old value / k
\* (the exact quotient), and leave min and max as they were.
C26_DecimalAppliesArithmetic ==
  (kind = "Decimal" /\ op \in {"+=", "-=", "*=", "/="})
  => (/\ op = "+=" => value = pre.value + arg
      /\ op = "-=" => value = pre.value - arg
      /\ op = "*=" => value = pre.value * arg
      /\ (op = "/=" /\ arg # 0) => value * arg = pre.value
      /\ minValue = pre.min
      /\ maxValue = pre.max)

CompoundAssignments == {"+=", "-=", "*=", "/=", "%="}

\* C20: every call of +=, -=, *=, /=, %= of ClampedNaturalNumber and
\* ClampedInteger that evaluates no undefined primitive operation returns
\* a reference to the object it was applied to.
C20_CompoundReturnsThis ==
  (/\ Arithmetic
   /\ op \in CompoundAssignments
   /\ ub \notin {"div_by_zero", "overflow", "endless_delegation"})
  => ret = "this"

C24_ConversionsReadValue ==
  /\ op = "bool"
     => (/\ answer = {value = 0}
         /\ Fields = pre
         /\ (0 < minValue \/ maxValue < 0) => answer = {FALSE})
  /\ op = "NumT" => (answer = {value} /\ Fields = pre)

\* C25: constructing an alias with no argument or with a value completes and
\* yields an object with value 0 (or the given value), min the least and
\* max the greatest number of the wrapped type.
C25_AliasDefaultsToFullRange ==
  op \in Aliases
  => (/\ ~trapped
      /\ value = arg
      /\ minValue = TypeMin(op)
      /\ maxValue = TypeMax(op))

\* C27: for ClampedInteger, from min <= value <= max and for every operand,
\* no sub-expression evaluated by +=, -=, *=, /= or by their reaction
\* helpers has a mathematical result outside the wrapped type.
C27_IntegerDecisionsDoNotOverflow ==
  (Signed /\ op \in {"+=", "-=", "*=", "/="} /\ PreInBounds) => ~ovf

\* C28: every call of ClampedInteger += or -= returns: with a negation that
\* wraps, the delegation between += and -= is taken at most once.
C28_DelegationTerminates ==
  (Signed /\ op \in {"+=", "-="})
  => (IntegerDelegations(arg, 0) <= 1 /\ ub # "endless_delegation")

\* C29: for ClampedInteger, from min <= value <= max, x /= -1 and x *= -1
\* both leave value = clamp(-value, min, max).
C29_DivideByMinusOneIsNegation ==
  (Signed /\ op \in {"/=", "*="} /\ arg = -1 /\ PreInBounds)
  => value = Clamp(-pre.value, pre.min, pre.max)

\* the calls of C30: the compound assignments and the increments
ArithmeticCalls == {"+=", "-=", "*=", "/=", "%=", "++x", "--x", "x++", "x--"}

\* C30: for ClampedNaturalNumber, ClampedInteger and ClampedDecimal, no call
\* of +=, -=, *=, /=, %=, ++ or -- changes min or max; a step that changes
\* min or max is a call of minValue(m) or maxValue(m).
C30_ArithmeticKeepsBounds ==
  [][/\ (kind \in {"Natural", "Integer", "Decimal"}
         /\ op' \in ArithmeticCalls)
        => (minValue' = minValue /\ maxValue' = maxValue)
     /\ (minValue' # minValue \/ maxValue' # maxValue)
        => op' \in {"minValue", "maxValue"}]_vars

\* x -= k ran on a ClampedInteger whose value was above its minimum, the
\* value is below the minimum now and the bounds are as they were
C30_Witness ==
  /\ Signed
  /\ op = "-="
  /\ PreInBounds
  /\ value < minValue
  /\ minValue = pre.min
  /\ maxValue = pre.max

\* C1: a ClampedInteger keeps min <= value <= max after every +=, -=, *=,
\* /= and %= (nonzero modulus) of a sequence in which no primitive
\* operation overflows. (Nothing runs after an overflow, so a state without
\* ovf is the end of a sequence without overflow.)
C1_IntegerStaysInBounds ==
  (Signed /\ ~ovf /\ ~(op = "%=" /\ arg = 0)) => InBounds

\* C2: a ClampedNaturalNumber keeps min <= value <= max, without any
\* unsigned wrap-around, after every +=, -=, *=, /= (nonzero divisor,
\* nonzero minimum) and %= (nonzero modulus).
C2_NaturalStaysInBounds ==
  (/\ Unsigned
   /\ ~(op = "/=" /\ (arg = 0 \/ pre.min = 0))
   /\ ~(op = "%=" /\ arg = 0))
  => (InBounds /\ ~ovf)

\* C3: a BasicClampedNumber has min <= value <= max after construction from
\* any triple and after every value(v), minValue(m), maxValue(m),
\* minimize() and maximize().
C3_BasicStaysInBounds ==
  kind = "Basic" => (minValue <= value /\ value <= maxValue)

\* minValue(m) was called with m above the value and stored the value
C3_Witness ==
  /\ kind = "Basic"
  /\ op = "minValue"
  /\ arg > pre.value
  /\ minValue = value
  /\ pre.min < pre.value

\* C4: from min <= value <= max, x -= k with k > 0 leaves
\* value = max(min, value - k), for ClampedInteger and ClampedNaturalNumber.
C4_SubtractSaturatesAtMin ==
  (Arithmetic /\ op = "-=" /\ PreInBounds /\ arg > 0)
  => value = Greatest(pre.min, pre.value - arg)

\* C5: from min <= value <= max, x += k with k > 0 leaves
\* value = min(max, value + k), for ClampedInteger and ClampedNaturalNumber.
C5_AddSaturatesAtMax ==
  (Arithmetic /\ op = "+=" /\ PreInBounds /\ arg > 0)
  => value = Least(pre.max, pre.value + arg)

\* value 5 with bounds [0, 10] plus 10 gives 10
C5_Witness ==
  /\ Unsigned
  /\ op = "+="
  /\ pre = [value |-> 5, min |-> 0, max |-> 10]
  /\ arg = 10
  /\ value = 10

\* C6: from min <= value <= max with value # 0, ClampedInteger x *= k with
\* k # 0 leaves value = clamp(value * k, min, max).
C6_IntegerMultiplyClamps ==
  (Signed /\ op = "*=" /\ PreInBounds /\ pre.value # 0 /\ arg # 0)
  => value = Clamp(pre.value * arg, pre.min, pre.max)

\* C7: from min <= value <= max with value > 0, x *= k with k > 0 leaves
\* value = min(max, value * k), and no primitive operation of the call has
\* a result outside the wrapped type (the product is not computed before
\* the decision), for ClampedNaturalNumber and ClampedInteger.
C7_PositiveMultiplySaturates ==
  (Arithmetic /\ op = "*=" /\ PreInBounds /\ pre.value > 0 /\ arg > 0)
  => (value = Least(pre.max, pre.value * arg) /\ ~ovf)

\* the product is larger than the wrapped type can hold and the value is
\* set to the maximum
C7_Witness ==
  /\ Unsigned
  /\ op = "*="
  /\ PreInBounds
  /\ pre.value > 1
  /\ arg > 1
  /\ pre.value * arg > NatTMax
  /\ pre.value < pre.max
  /\ value = pre.max

\* C8: from min <= value <= max, ClampedInteger x /= k with k # 0 leaves
\* value = clamp(q, min, max), q the quotient truncated toward zero.
C8_IntegerDivideClamps ==
  (Signed /\ op = "/=" /\ PreInBounds /\ arg # 0)
  => value = Clamp(TruncDiv(pre.value, arg), pre.min, pre.max)

\* C9: from 0 <= min <= value <= max, ClampedNaturalNumber x /= k with
\* k >= 1 leaves value = max(min, floor(value / k)).
C9_NaturalDivideClamps ==
  (Unsigned /\ op = "/=" /\ PreInBounds /\ arg >= 1)
  => value = Greatest(pre.min, pre.value \div arg)

\* C10: from min <= value <= max, x /= 0 leaves value = max if value > 0,
\* min if value < 0 and 0 if value = 0, and no primitive division by zero
\* is evaluated, for ClampedInteger and ClampedNaturalNumber.
C10_DivideByZeroSaturates ==
  (Arithmetic /\ op = "/=" /\ arg = 0 /\ PreInBounds)
  => (/\ value = (IF pre.value > 0 THEN pre.max
                  ELSE IF pre.value < 0 THEN pre.min
                  ELSE 0)
      /\ ub # "div_by_zero")

====
